---- MODULE Spec2Model ----
(***************************************************************************)
(* Tradecraft dashboard: the client-side mock pipeline                     *)
(* (frontend/src/agents/pipeline.js) and the dispatch/poll client          *)
(* (frontend/src/services/api.js).                                         *)
(*                                                                         *)
(* Numbers are fixed-point integers:                                       *)
(*   confidence            hundredths        (0.65 -> 65)                  *)
(*   size_pct, adjusted    tenths of a percent (8.0 -> 80)                 *)
(*   prices                cents             (875.00 -> 87500)             *)
(*   sharpe, slippage      tenths                                          *)
(*   expected_return_pct   hundredths of a percent                         *)
(* A ticker is the sequence of its characters, so that toUpperCase is a    *)
(* real conversion.  A nullable value is <<>> (null) or <<v>>.             *)
(* Free-text fields built from templates (rationale, reason of the risk    *)
(* payload, notes, compliance_notes, log_id) carry no control flow and are *)
(* left out of the payloads.                                               *)
(***************************************************************************)
EXTENDS Integers, Sequences, FiniteSets, TLC

VARIABLES run, risk, poll, sig, disp, audit, idx, prof, table, direct, app, preview

\* the state of the function-level specifications added after run, risk, poll
\* (direct: a direct call of runExecutionAgent or runSupervisor)
harness == <<sig, disp, audit, idx, prof, table, direct>>

\* the state of the dashboard (main.js)
appvars == <<app, preview>>

vars == <<run, risk, poll, harness, appvars>>

\* ------------------------------------------------------------------------
\* Generic helpers
\* ------------------------------------------------------------------------

Null == <<>>

Some(v) == <<v>>

Min(a, b) == IF a < b THEN a ELSE b

\* Number.prototype.toFixed on n/d: nearest integer, ties away from zero
RoundDiv(n, d) ==
  IF n >= 0 THEN (2 * n + d) \div (2 * d)
  ELSE -((2 * (-n) + d) \div (2 * d))

\* ------------------------------------------------------------------------
\* String.prototype.toUpperCase on tickers
\* ------------------------------------------------------------------------

LowerLetters ==
  <<"a","b","c","d","e","f","g","h","i","j","k","l","m",
    "n","o","p","q","r","s","t","u","v","w","x","y","z">>

UpperLetters ==
  <<"A","B","C","D","E","F","G","H","I","J","K","L","M",
    "N","O","P","Q","R","S","T","U","V","W","X","Y","Z">>

UpperChar(ch) ==
  IF \E i \in 1..Len(LowerLetters) : LowerLetters[i] = ch
  THEN UpperLetters[CHOOSE i \in 1..Len(LowerLetters) : LowerLetters[i] = ch]
  ELSE ch

toUpperCase(s) == [i \in 1..Len(s) |-> UpperChar(s[i])]

\* ------------------------------------------------------------------------
\* Ticker profile table
\* ------------------------------------------------------------------------

NVDA == <<"N","V","D","A">>
AAPL == <<"A","A","P","L">>
SPY  == <<"S","P","Y">>
MSFT == <<"M","S","F","T">>
TSLA == <<"T","S","L","A">>
META == <<"M","E","T","A">>

TICKER_PROFILES ==
     (NVDA :> [bias |-> "BULLISH", action |-> "LONG",  price |-> 87500, stop |-> 85000, tp |-> 92000, sharpe |-> 18])
  @@ (AAPL :> [bias |-> "BEARISH", action |-> "SHORT", price |-> 18950, stop |-> 19300, tp |-> 18200, sharpe |-> 14])
  @@ (SPY  :> [bias |-> "BEARISH", action |-> "SHORT", price |-> 50200, stop |-> 51200, tp |-> 48800, sharpe |-> 11])
  @@ (MSFT :> [bias |-> "BULLISH", action |-> "LONG",  price |-> 41500, stop |-> 40200, tp |-> 43500, sharpe |-> 16])
  @@ (TSLA :> [bias |-> "BEARISH", action |-> "SHORT", price |-> 26500, stop |-> 27800, tp |-> 24800, sharpe |-> 9])
  @@ (META :> [bias |-> "BULLISH", action |-> "LONG",  price |-> 51000, stop |-> 49500, tp |-> 53500, sharpe |-> 17])

NeutralProfile ==
  [bias |-> "NEUTRAL", action |-> "HOLD",
   price |-> 10000, stop |-> 9500, tp |-> 10800, sharpe |-> 8]

\* getProfile that looks the ticker up as it is written
getProfile_CaseSensitive(ticker) ==
  IF ticker \in DOMAIN table
  THEN table[ticker]
  ELSE NeutralProfile

\* `table` is the module-level object TICKER_PROFILES as it is at the time
\* of the call
getProfile(ticker) ==
  IF toUpperCase(ticker) \in DOMAIN table
  THEN table[toUpperCase(ticker)]
  ELSE NeutralProfile

\* ------------------------------------------------------------------------
\* Stage simulators
\* ------------------------------------------------------------------------

\* Math.random() * 0.28 lies in [0, 0.28), so toFixed(2) of 0.65 + that
\* yields every hundredth from 0.65 up to 0.93.
ConfBase == 65

ConfSpan == 28

Confidences == ConfBase..(ConfBase + ConfSpan)

\* 3.5 + Math.random() * 2, toFixed(1): tenths 35..55
SlipBase == 35

SlipSpan == 20

Slippages == SlipBase..(SlipBase + SlipSpan)

buildResearchSummary(event, profile) ==
  [headline |-> event.headline,
   dir      |-> IF profile.bias = "BULLISH" THEN "upside"
                ELSE IF profile.bias = "BEARISH" THEN "downside"
                ELSE "sideways",
   ticker   |-> event.ticker,
   regime   |-> IF profile.bias = "BULLISH" THEN "RISK_ON" ELSE "RISK_OFF"]

buildRisks(profile) ==
  IF profile.bias = "BULLISH"
  THEN <<"Macro regime shift", "Fed policy surprise",
         "Overbought technicals", "Earnings miss risk">>
  ELSE <<"Macro regime shift", "Fed policy surprise",
         "Short squeeze potential", "Sector rotation inflows">>

\* confidence is the value drawn from Math.random (hundredths)
runResearcher(event, confidence) ==
  LET profile == getProfile(event.ticker) IN
  [signal     |-> profile.bias,
   confidence |-> confidence,
   summary    |-> buildResearchSummary(event, profile),
   sources    |-> <<event.source, "Macro Desk", "SEC Filings">>,
   regime     |-> IF profile.bias = "BULLISH" THEN "RISK_ON" ELSE "RISK_OFF",
   key_risks  |-> buildRisks(profile)]

\* hard ceiling of the proposed position, percent
SIZE_CEIL == 8

\* multiplier applied to the confidence
SIZE_MULT == 12

\* signalSize with half the multiplier
signalSize_HalfMult(confidence) ==
  RoundDiv(Min(confidence * 6, SIZE_CEIL * 100), 10)

\* signalSize that cuts the second decimal instead of rounding
signalSize_Truncate(confidence) ==
  Min(confidence * SIZE_MULT, SIZE_CEIL * 100) \div 10

\* confidence (hundredths) * 12 is in hundredths of a percent; toFixed(1)
\* brings it to tenths.
signalSize(confidence) ==
  RoundDiv(Min(confidence * SIZE_MULT, SIZE_CEIL * 100), 10)

\* runSignalAgent that maps every non-bullish signal to SHORT
runSignalAgent_NoHold(event, researchPayload) ==
  LET profile    == getProfile(event.ticker)
      confidence == researchPayload.confidence
      size       == signalSize(confidence)
  IN
  [action   |-> IF researchPayload.signal = "BULLISH" THEN "LONG" ELSE "SHORT",
   ticker              |-> toUpperCase(event.ticker),
   size_pct            |-> size,
   entry_price         |-> profile.price,
   stop_loss           |-> profile.stop,
   take_profit         |-> profile.tp,
   backtest_sharpe     |-> profile.sharpe,
   expected_return_pct |-> RoundDiv((profile.tp - profile.price) * 10000, profile.price),
   based_on_signal_id  |-> "mock-res-001"]

runSignalAgent(event, researchPayload) ==
  LET profile    == getProfile(event.ticker)
      confidence == researchPayload.confidence
      size       == signalSize(confidence)
  IN
  [action   |-> IF researchPayload.signal = "BULLISH" THEN "LONG"
                ELSE IF researchPayload.signal = "BEARISH" THEN "SHORT"
                ELSE "HOLD",
   ticker              |-> toUpperCase(event.ticker),
   size_pct            |-> size,
   entry_price         |-> profile.price,
   stop_loss           |-> profile.stop,
   take_profit         |-> profile.tp,
   backtest_sharpe     |-> profile.sharpe,
   expected_return_pct |-> RoundDiv((profile.tp - profile.price) * 10000, profile.price),
   based_on_signal_id  |-> "mock-res-001"]

\* single-stock cap, tenths of a percent (5.0)
MAX_POS == 50

\* hard veto limit, tenths of a percent (20)
HARD_LIMIT == 200

\* runRiskManager whose hard limit is inclusive
runRiskManager_InclusiveLimit(signalPayload) ==
  LET rawSize  == signalPayload.size_pct
      veto     == rawSize >= HARD_LIMIT \/ signalPayload.action = "HOLD"
      adjusted == IF veto THEN Null ELSE Some(Min(rawSize, MAX_POS))
      verdict  == IF veto THEN "VETOED"
                  ELSE IF rawSize > MAX_POS THEN "APPROVED_WITH_CONDITIONS"
                  ELSE "APPROVED"
  IN
  [verdict           |-> verdict,
   veto              |-> veto,
   adjusted_size_pct |-> adjusted,
   risk_metrics      |-> [position_limit_ok |-> rawSize <= MAX_POS,
                          drawdown_ok       |-> TRUE,
                          liquidity_ok      |-> TRUE]]

runRiskManager(signalPayload) ==
  LET rawSize  == signalPayload.size_pct
      veto     == rawSize > HARD_LIMIT \/ signalPayload.action = "HOLD"
      adjusted == IF veto THEN Null ELSE Some(Min(rawSize, MAX_POS))
      verdict  == IF veto THEN "VETOED"
                  ELSE IF rawSize > MAX_POS THEN "APPROVED_WITH_CONDITIONS"
                  ELSE "APPROVED"
  IN
  [verdict           |-> verdict,
   veto              |-> veto,
   adjusted_size_pct |-> adjusted,
   risk_metrics      |-> [position_limit_ok |-> rawSize <= MAX_POS,
                          drawdown_ok       |-> TRUE,
                          liquidity_ok      |-> TRUE]]

\* TWAP threshold, tenths of a percent (3)
TWAP_MIN == 30

\* slippage is the value drawn from Math.random (tenths of a bp)
runExecutionAgent_InclusiveTwap(signalPayload, riskPayload, slippage) ==
  IF riskPayload.veto
  THEN [status |-> "REJECTED", reason |-> "Vetoed by Risk Manager."]
  ELSE
    LET effectiveSize == IF riskPayload.adjusted_size_pct # Null
                         THEN riskPayload.adjusted_size_pct[1]
                         ELSE signalPayload.size_pct
        strategy      == IF effectiveSize >= TWAP_MIN THEN "TWAP" ELSE "LIMIT"
    IN
    [strategy              |-> strategy,
     duration_min          |-> 30,
     child_orders          |-> 6,
     limit_price           |-> signalPayload.entry_price,
     expected_slippage_bps |-> slippage,
     venue                 |-> "PAPER_EXCHANGE",
     status                |-> "SIMULATED_FILL"]

runExecutionAgent(signalPayload, riskPayload, slippage) ==
  IF riskPayload.veto
  THEN [status |-> "REJECTED", reason |-> "Vetoed by Risk Manager."]
  ELSE
    LET effectiveSize == IF riskPayload.adjusted_size_pct # Null
                         THEN riskPayload.adjusted_size_pct[1]
                         ELSE signalPayload.size_pct
        strategy      == IF effectiveSize > TWAP_MIN THEN "TWAP" ELSE "LIMIT"
    IN
    [strategy              |-> strategy,
     duration_min          |-> 30,
     child_orders          |-> 6,
     limit_price           |-> signalPayload.entry_price,
     expected_slippage_bps |-> slippage,
     venue                 |-> "PAPER_EXCHANGE",
     status                |-> "SIMULATED_FILL"]

\* runSupervisor with a chain that also demands an execution payload
runSupervisor_CountsSelf(all) ==
  LET hasResearch == "researcher" \in DOMAIN all
      hasRisk     == "risk_manager" \in DOMAIN all
      chainOk     == hasResearch /\ hasRisk
  IN
  [audit_status              |-> IF chainOk THEN "COMPLIANT" ELSE "NON_COMPLIANT",
   circuit_breaker_triggered |-> FALSE,
   human_review_required     |-> IF hasRisk THEN all["risk_manager"].veto ELSE FALSE,
   flags                     |-> IF chainOk THEN <<>>
                                 ELSE <<"Missing research basis or risk review">>,
   decision_chain_complete   |-> chainOk,
   total_messages_audited    |-> Cardinality(DOMAIN all) + 1]

runSupervisor_NeedsExecution(all) ==
  LET hasResearch == "researcher" \in DOMAIN all
      hasRisk     == "risk_manager" \in DOMAIN all
      chainOk     == hasResearch /\ hasRisk /\ "execution_agent" \in DOMAIN all
  IN
  [audit_status              |-> IF chainOk THEN "COMPLIANT" ELSE "NON_COMPLIANT",
   circuit_breaker_triggered |-> FALSE,
   human_review_required     |-> IF hasRisk THEN all["risk_manager"].veto ELSE FALSE,
   flags                     |-> IF chainOk THEN <<>>
                                 ELSE <<"Missing research basis or risk review">>,
   decision_chain_complete   |-> chainOk,
   total_messages_audited    |-> Cardinality(DOMAIN all)]

\* all: function from the stage keys present to their payloads
runSupervisor(all) ==
  LET hasResearch == "researcher" \in DOMAIN all
      hasRisk     == "risk_manager" \in DOMAIN all
      chainOk     == hasResearch /\ hasRisk
  IN
  [audit_status              |-> IF chainOk THEN "COMPLIANT" ELSE "NON_COMPLIANT",
   circuit_breaker_triggered |-> FALSE,
   human_review_required     |-> IF hasRisk THEN all["risk_manager"].veto ELSE FALSE,
   flags                     |-> IF chainOk THEN <<>>
                                 ELSE <<"Missing research basis or risk review">>,
   decision_chain_complete   |-> chainOk,
   total_messages_audited    |-> Cardinality(DOMAIN all)]

\* ------------------------------------------------------------------------
\* Orchestrator: runMockPipeline(event, onStep)
\*
\* A run is a record
\*   pc      the await the coroutine is suspended at, or "returned"
\*   event   the argument
\*   results the local object `results` (stage key -> payload)
\*   trace   what the run has done so far, in program order:
\*             [kind |-> "eval", stage |-> k]      a stage simulator was called
\*             [kind |-> "onStep", args |-> <<..>>] onStep was called with args
\*   ret     the value the promise resolved with (only when pc = "returned")
\* The locals researchPayload, signalPayload and riskPayload are read back
\* from results, where the code stores them on the line after computing them.
\* Each step below is one timer firing followed by the synchronous code up
\* to the next await.  The lengths of the delays are presentation pacing and
\* are not modelled.
\* ------------------------------------------------------------------------

EmptyObj == [k \in {} |-> TRUE]

Eval(stage) == [kind |-> "eval", stage |-> stage]

OnStep(args) == [kind |-> "onStep", args |-> args]

NewRun(event) ==
  [pc      |-> "delay_researcher",
   event   |-> event,
   results |-> EmptyObj,
   trace   |-> <<>>,
   ret     |-> EmptyObj]

StepResearcher(m, confidence) ==
  LET researchPayload == runResearcher(m.event, confidence) IN
  [m EXCEPT !.results = ("researcher" :> researchPayload) @@ @,
            !.trace   = @ \o <<Eval("researcher"),
                               OnStep(<<"researcher", researchPayload>>)>>,
            !.pc      = "delay_signal"]

StepSignal(m) ==
  LET signalPayload == runSignalAgent(m.event, m.results["researcher"]) IN
  [m EXCEPT !.results = ("signal_agent" :> signalPayload) @@ @,
            !.trace   = @ \o <<Eval("signal_agent"),
                               OnStep(<<"signal_agent", signalPayload>>)>>,
            !.pc      = "delay_risk"]

\* StepRisk without the veto short-circuit
StepRisk_NoShortCircuit(m) ==
  LET riskPayload == runRiskManager(m.results["signal_agent"]) IN
  [m EXCEPT !.results = ("risk_manager" :> riskPayload) @@ @,
            !.trace   = @ \o <<Eval("risk_manager"),
                               OnStep(<<"risk_manager", riskPayload>>)>>,
            !.pc      = "delay_execution"]

StepRisk(m) ==
  LET riskPayload == runRiskManager(m.results["signal_agent"]) IN
  [m EXCEPT !.results = ("risk_manager" :> riskPayload) @@ @,
            !.trace   = @ \o <<Eval("risk_manager"),
                               OnStep(<<"risk_manager", riskPayload>>)>>,
            !.pc      = IF riskPayload.veto THEN "delay_veto_supervisor"
                        ELSE "delay_execution"]

\* early exit that returns without running the supervisor
StepVetoSupervisor_NoAudit(m) ==
  [m EXCEPT !.ret = ("_vetoed" :> TRUE) @@ m.results,
            !.pc  = "returned"]

\* the early exit taken when riskPayload.veto
StepVetoSupervisor(m) ==
  LET supervisorPayload == runSupervisor(m.results)
      results           == ("supervisor" :> supervisorPayload) @@ m.results
  IN
  [m EXCEPT !.results = results,
            !.trace   = @ \o <<Eval("supervisor"),
                               OnStep(<<"supervisor", supervisorPayload, TRUE>>)>>,
            !.ret     = ("_vetoed" :> TRUE) @@ results,
            !.pc      = "returned"]

StepExecution(m, slippage) ==
  LET execPayload == runExecutionAgent(m.results["signal_agent"],
                                       m.results["risk_manager"], slippage)
  IN
  [m EXCEPT !.results = ("execution_agent" :> execPayload) @@ @,
            !.trace   = @ \o <<Eval("execution_agent"),
                               OnStep(<<"execution_agent", execPayload>>)>>,
            !.pc      = "delay_supervisor"]

\* StepSupervisor that omits the third callback argument
StepSupervisor_NoFlag(m) ==
  LET supervisorPayload == runSupervisor(m.results)
      results           == ("supervisor" :> supervisorPayload) @@ m.results
  IN
  [m EXCEPT !.results = results,
            !.trace   = @ \o <<Eval("supervisor"),
                               OnStep(<<"supervisor", supervisorPayload>>)>>,
            !.ret     = ("status" :> "complete") @@ ("_vetoed" :> FALSE) @@ results,
            !.pc      = "returned"]

StepSupervisor(m) ==
  LET supervisorPayload == runSupervisor(m.results)
      results           == ("supervisor" :> supervisorPayload) @@ m.results
  IN
  [m EXCEPT !.results = results,
            !.trace   = @ \o <<Eval("supervisor"),
                               OnStep(<<"supervisor", supervisorPayload, TRUE>>)>>,
            !.ret     = ("status" :> "complete") @@ ("_vetoed" :> FALSE) @@ results,
            !.pc      = "returned"]

\* ------------------------------------------------------------------------
\* Specification of one run of the orchestrator
\* ------------------------------------------------------------------------

Tickers ==
  { NVDA, AAPL, SPY, MSFT, TSLA, META,
    <<"n","v","d","a">>, <<"a","a","p","l">>, <<"T","s","l","a">>,
    <<"I","B","M">>, <<"i","b","m">>, <<>> }

Events ==
  { [headline |-> "NVDA beats earnings", ticker |-> t, source |-> "NASDAQ Filing"]
      : t \in Tickers }

RunIdle == [pc |-> "idle"]

RiskIdle == [pc |-> "idle"]

PollIdle == [pc |-> "idle"]

Idle == [pc |-> "idle"]

\* nothing of the function-level specifications below is in progress
HarnessIdle ==
  /\ sig = Idle
  /\ disp = Idle
  /\ audit = Idle
  /\ idx = Idle
  /\ prof = Idle
  /\ table = TICKER_PROFILES
  /\ direct = Idle

\* no dashboard is running
AppIdle ==
  /\ app = Idle
  /\ preview = Idle

InitMock ==
  /\ run \in { NewRun(e) : e \in Events }
  /\ risk = RiskIdle
  /\ poll = PollIdle
  /\ HarnessIdle
  /\ AppIdle

MockResearcher ==
  /\ run.pc = "delay_researcher"
  /\ \E confidence \in Confidences : run' = StepResearcher(run, confidence)
  /\ UNCHANGED <<risk, poll, harness, appvars>>

MockSignal ==
  /\ run.pc = "delay_signal"
  /\ run' = StepSignal(run)
  /\ UNCHANGED <<risk, poll, harness, appvars>>

MockRisk ==
  /\ run.pc = "delay_risk"
  /\ run' = StepRisk(run)
  /\ UNCHANGED <<risk, poll, harness, appvars>>

MockVetoSupervisor ==
  /\ run.pc = "delay_veto_supervisor"
  /\ run' = StepVetoSupervisor(run)
  /\ UNCHANGED <<risk, poll, harness, appvars>>

MockExecution ==
  /\ run.pc = "delay_execution"
  /\ \E slippage \in Slippages : run' = StepExecution(run, slippage)
  /\ UNCHANGED <<risk, poll, harness, appvars>>

MockSupervisor ==
  /\ run.pc = "delay_supervisor"
  /\ run' = StepSupervisor(run)
  /\ UNCHANGED <<risk, poll, harness, appvars>>

NextMock ==
  \/ MockResearcher
  \/ MockSignal
  \/ MockRisk
  \/ MockVetoSupervisor
  \/ MockExecution
  \/ MockSupervisor

SpecMock == InitMock /\ [][NextMock]_vars

\* every delay timer fires and onStep returns
FairSpecMock == SpecMock /\ WF_vars(NextMock)

\* ------------------------------------------------------------------------
\* Properties of one run of the orchestrator
\* ------------------------------------------------------------------------

IsPrefix(s, t) == Len(s) <= Len(t) /\ \A i \in 1..Len(s) : s[i] = t[i]

IsOnStep(e) == e.kind = "onStep"

IsEval(e) == e.kind = "eval"

\* the onStep invocations of a run, in order
Calls(m) == SelectSeq(m.trace, IsOnStep)

CallStages(m) == [i \in 1..Len(Calls(m)) |-> Calls(m)[i].args[1]]

\* the stage simulators a run has evaluated, in order
Evals(m) == SelectSeq(m.trace, IsEval)

EvalCount(m, stage) ==
  Cardinality({ i \in 1..Len(Evals(m)) : Evals(m)[i].stage = stage })

\* the third argument of an onStep invocation is true
IsFinalCall(c) == Len(c.args) >= 3 /\ c.args[3] = TRUE

Returned == run.pc = "returned"

HasRisk == "risk_manager" \in DOMAIN run.results

RiskVeto == HasRisk /\ run.results["risk_manager"].veto

VetoSequence == <<"researcher", "signal_agent", "risk_manager", "supervisor">>

FullSequence ==
  <<"researcher", "signal_agent", "risk_manager", "execution_agent", "supervisor">>

\* C1: the onStep callbacks of a run form exactly the sequence researcher,
\* signal_agent, risk_manager, supervisor when Risk vetoes and researcher,
\* signal_agent, risk_manager, execution_agent, supervisor when it does not;
\* while the run is in progress they are a prefix of that sequence; and every
\* stage evaluation is immediately followed by the callback of that stage,
\* carrying the stage's payload, before any other stage is evaluated.
C1_CallbackOrder ==
  LET names == CallStages(run) IN
  /\ IsPrefix(names, VetoSequence) \/ IsPrefix(names, FullSequence)
  /\ (HasRisk /\ RiskVeto) => IsPrefix(names, VetoSequence)
  /\ (HasRisk /\ ~RiskVeto) => IsPrefix(names, FullSequence)
  /\ Returned => names = (IF RiskVeto THEN VetoSequence ELSE FullSequence)
  /\ Len(run.trace) % 2 = 0
  /\ \A i \in 1..Len(run.trace) :
       i % 2 = 1 =>
         /\ IsEval(run.trace[i])
         /\ IsOnStep(run.trace[i + 1])
         /\ run.trace[i + 1].args[1] = run.trace[i].stage
         /\ run.trace[i + 1].args[2] = run.results[run.trace[i].stage]

C1_Witness ==
  /\ Returned
  /\ ~RiskVeto
  /\ CallStages(run) = FullSequence

\* C2: the returned Run Result has an execution_agent payload exactly when
\* Risk did not veto, its _vetoed flag equals the risk payload's veto, and
\* after a veto the supervisor payload still reports COMPLIANT.
C2_VetoShortCircuit ==
  Returned =>
    /\ ("execution_agent" \in DOMAIN run.ret) <=> ~run.ret["risk_manager"].veto
    /\ run.ret["_vetoed"] = run.ret["risk_manager"].veto
    /\ run.ret["risk_manager"].veto =>
         run.ret["supervisor"].audit_status = "COMPLIANT"

C2_Witness ==
  /\ Returned
  /\ run.ret["risk_manager"].veto
  /\ "execution_agent" \notin DOMAIN run.ret
  /\ run.ret["supervisor"].audit_status = "COMPLIANT"

\* Risk once, Supervisor once, Supervisor last
EvaluatedOnce ==
  /\ EvalCount(run, "risk_manager") = 1
  /\ EvalCount(run, "supervisor") = 1
  /\ Evals(run)[Len(Evals(run))].stage = "supervisor"

\* C3: every run eventually returns, and when it has returned the Risk
\* Manager and the Supervisor have each been evaluated exactly once and the
\* Supervisor was the last stage evaluated.
C3_Terminates == <>[](Returned /\ EvaluatedOnce)

C3_Witness ==
  /\ Returned
  /\ RiskVeto
  /\ EvaluatedOnce
  /\ EvalCount(run, "execution_agent") = 0

\* C4: the third callback argument is true for the supervisor callback and
\* for no other; there is at most one such callback, it is the last one, and
\* a returned run has delivered exactly one.
C4_FinalFlag ==
  LET calls  == Calls(run)
      finals == { i \in 1..Len(calls) : IsFinalCall(calls[i]) }
  IN
  /\ \A i \in 1..Len(calls) :
       IsFinalCall(calls[i]) <=> calls[i].args[1] = "supervisor"
  /\ Cardinality(finals) <= 1
  /\ \A i \in finals : i = Len(calls) /\ Returned
  /\ Returned => Cardinality(finals) = 1

C4_Witness ==
  /\ Returned
  /\ RiskVeto
  /\ IsFinalCall(Calls(run)[Len(Calls(run))])
  /\ Len(Calls(run)) = 4

\* C5: every returned Run Result carries a _vetoed flag and status "complete".
C5_UniformCompletion ==
  Returned =>
    /\ "_vetoed" \in DOMAIN run.ret
    /\ "status" \in DOMAIN run.ret
    /\ run.ret["status"] = "complete"

\* C7 as stated: an event whose ticker is not a key of the table is vetoed.
C7_NotAKeyVetoed ==
  (run.event.ticker \notin DOMAIN TICKER_PROFILES) =>
    /\ HasRisk => run.results["risk_manager"].verdict = "VETOED"
    /\ Returned =>
         /\ "execution_agent" \notin DOMAIN run.ret
         /\ run.ret["supervisor"].human_review_required = TRUE

\* C7: an event whose upper-cased ticker is not a key of the profile table
\* yields, for every confidence, a risk payload with verdict VETOED, a Run
\* Result without an execution_agent payload and a supervisor payload with
\* human_review_required = true.
C7_UnknownTickerVetoed ==
  (toUpperCase(run.event.ticker) \notin DOMAIN TICKER_PROFILES) =>
    /\ HasRisk => run.results["risk_manager"].verdict = "VETOED"
    /\ Returned =>
         /\ "execution_agent" \notin DOMAIN run.ret
         /\ run.ret["supervisor"].human_review_required = TRUE

C7_Witness ==
  /\ Returned
  /\ run.event.ticker = <<"i","b","m">>
  /\ run.ret["risk_manager"].verdict = "VETOED"
  /\ run.ret["supervisor"].human_review_required = TRUE

\* C8: for a ticker of the profile table and any confidence, a run ends not
\* vetoed with verdict APPROVED_WITH_CONDITIONS, adjusted size 5.0, strategy
\* TWAP, audit status COMPLIANT and _vetoed = false; and no run at all
\* produces the verdict APPROVED or the strategy LIMIT.
C8_KnownTickerOutcome ==
  /\ (run.event.ticker \in DOMAIN TICKER_PROFILES /\ Returned) =>
       /\ run.ret["risk_manager"].veto = FALSE
       /\ run.ret["risk_manager"].verdict = "APPROVED_WITH_CONDITIONS"
       /\ run.ret["risk_manager"].adjusted_size_pct = Some(MAX_POS)
       /\ "execution_agent" \in DOMAIN run.ret
       /\ run.ret["execution_agent"].strategy = "TWAP"
       /\ run.ret["supervisor"].audit_status = "COMPLIANT"
       /\ run.ret["_vetoed"] = FALSE
  /\ HasRisk => run.results["risk_manager"].verdict # "APPROVED"
  /\ "execution_agent" \in DOMAIN run.results =>
       run.results["execution_agent"].strategy # "LIMIT"

C8_Witness ==
  /\ Returned
  /\ run.event.ticker = NVDA
  /\ run.ret["researcher"].confidence = 80
  /\ run.ret["signal_agent"].size_pct = 80
  /\ run.ret["risk_manager"].verdict = "APPROVED_WITH_CONDITIONS"
  /\ run.ret["execution_agent"].strategy = "TWAP"

\* ------------------------------------------------------------------------
\* runRiskManager as a function of its argument
\* ------------------------------------------------------------------------

\* largest size_pct tried, tenths of a percent
MaxSizeTenths == 250

Actions == {"LONG", "SHORT", "HOLD"}

RiskInputs ==
  { [action |-> a, size_pct |-> sz] : a \in Actions, sz \in 0..MaxSizeTenths }

InitRisk ==
  /\ run = RunIdle
  /\ poll = PollIdle
  /\ risk \in { [pc |-> "call", signalPayload |-> sp, out |-> Null] : sp \in RiskInputs }
  /\ HarnessIdle
  /\ AppIdle

RiskCall ==
  /\ risk.pc = "call"
  /\ risk' = [risk EXCEPT !.pc = "done",
                          !.out = Some(runRiskManager(risk.signalPayload))]
  /\ UNCHANGED <<run, poll, harness, appvars>>

NextRisk == RiskCall

SpecRisk == InitRisk /\ [][NextRisk]_vars

\* C6: veto = (size_pct > 20 or action = HOLD); on veto the verdict is VETOED
\* and adjusted_size_pct is null; without veto a size above 5.0 gives
\* APPROVED_WITH_CONDITIONS with adjusted size 5.0 and any other size gives
\* APPROVED with the size unchanged; position_limit_ok = (size_pct <= 5.0)
\* and drawdown_ok, liquidity_ok are true.
C6_RiskVerdict ==
  risk.pc = "done" =>
    LET sz == risk.signalPayload.size_pct
        a  == risk.signalPayload.action
        r  == risk.out[1]
    IN
    /\ r.veto <=> (sz > 200 \/ a = "HOLD")
    /\ r.veto => (r.verdict = "VETOED" /\ r.adjusted_size_pct = Null)
    /\ (~r.veto /\ sz > 50) =>
         (r.verdict = "APPROVED_WITH_CONDITIONS" /\ r.adjusted_size_pct = Some(50))
    /\ (~r.veto /\ sz <= 50) =>
         (r.verdict = "APPROVED" /\ r.adjusted_size_pct = Some(sz))
    /\ r.risk_metrics.position_limit_ok <=> (sz <= 50)
    /\ r.risk_metrics.drawdown_ok
    /\ r.risk_metrics.liquidity_ok

C6_Witness ==
  /\ risk.pc = "done"
  /\ risk.signalPayload.size_pct = 200
  /\ risk.signalPayload.action = "LONG"
  /\ risk.out[1].verdict = "APPROVED_WITH_CONDITIONS"
  /\ risk.out[1].adjusted_size_pct = Some(50)

\* ------------------------------------------------------------------------
\* pollForResult(runId, {maxWaitMs, intervalMs, onPing})
\*
\* Time is counted in ticks of half a second (Date.now() relative to the
\* moment of the call).  A poll is a record
\*   pc        "called", the await it is suspended at ("sleeping",
\*             "fetching", "parsing"), "returned" or "failed"
\*   maxWaitMs, intervalMs  the options, in ticks
\*   now       Date.now()
\*   deadline  the local `deadline`
\*   attempts  fetches started;  pings, lastPing  onPing calls and the last
\*             argument passed;  fetchAt  Date.now() when the latest fetch
\*             was started
\*   outcome   how the latest fetch ended: "pending", "throw" (fetch
\*             rejected), "not_ok", "ok" (response ok, body being read),
\*             "parse_error" (resp.json() rejected), "incomplete",
\*             "complete"
\*   body      the parsed body of the latest fetch (null or <<object>>)
\*   result    the value returned;  error  the error thrown
\* ------------------------------------------------------------------------

TicksPerSec == 2

MaxWaitTicks == 8

MaxIntervalTicks == 3

\* how late a timer may fire, ticks
MaxLate == 1

\* how long a fetch or a body read may take, ticks
MaxLatency == 2

TimeoutError == "Pipeline timed out after 2 minutes. Check Actions tab."

\* Math.round(n / d) for d > 0: nearest integer, ties towards +infinity
MathRound(n, d) == (2 * n + d) \div (2 * d)

\* JSON bodies a result file may hold: null, or an object
Bodies ==
  { Null,
    Some(EmptyObj),
    Some("status" :> "running"),
    Some(("status" :> "complete") @@ ("_vetoed" :> FALSE)),
    Some(("status" :> "complete") @@ ("_vetoed" :> TRUE)) }

\* data?.status === 'complete'
IsComplete(data) ==
  /\ data # Null
  /\ "status" \in DOMAIN data[1]
  /\ data[1]["status"] = "complete"

NewPoll(maxWaitMs, intervalMs) ==
  [pc |-> "called", maxWaitMs |-> maxWaitMs, intervalMs |-> intervalMs,
   now |-> 0, deadline |-> 0, attempts |-> 0, pings |-> 0, lastPing |-> 0,
   fetchAt |-> 0,
   outcome |-> "pending", body |-> Null, result |-> Null, error |-> Null]

\* the loop condition with an inclusive deadline
LoopCheck_Inclusive(p) ==
  IF p.now <= p.deadline
  THEN [p EXCEPT !.pc = "sleeping"]
  ELSE [p EXCEPT !.pc = "failed", !.error = Some(TimeoutError)]

\* while (Date.now() < deadline) { await sleep(..) ... } throw new Error(..)
LoopCheck(p) ==
  IF p.now < p.deadline
  THEN [p EXCEPT !.pc = "sleeping"]
  ELSE [p EXCEPT !.pc = "failed", !.error = Some(TimeoutError)]

StepPollStart(p) ==
  LoopCheck([p EXCEPT !.deadline = p.now + p.maxWaitMs])

\* the sleep timer fires `late` ticks after its due time; onPing, then fetch
StepSleepDone(p, late) ==
  LET now == p.now + p.intervalMs + late IN
  [p EXCEPT !.now      = now,
            !.pings    = @ + 1,
            !.lastPing = MathRound(p.deadline - now, TicksPerSec),
            !.attempts = @ + 1,
            !.fetchAt  = now,
            !.outcome  = "pending",
            !.body     = Null,
            !.pc       = "fetching"]

\* a fetch whose rejection is not caught
StepFetchSettles_NoCatch(p, latency, how) ==
  LET q == [p EXCEPT !.now = @ + latency, !.outcome = how] IN
  IF how = "ok" THEN [q EXCEPT !.pc = "parsing"]
  ELSE IF how = "throw"
       THEN [q EXCEPT !.pc = "failed", !.error = Some("Failed to fetch")]
       ELSE LoopCheck(q)

\* the fetch settles after `latency` ticks: rejected, or a response
StepFetchSettles(p, latency, how) ==
  LET q == [p EXCEPT !.now = @ + latency, !.outcome = how] IN
  IF how = "ok" THEN [q EXCEPT !.pc = "parsing"] ELSE LoopCheck(q)

\* resp.json() that lets any parsed body through
StepJsonSettles_AnyBody(p, latency, parsed, data) ==
  LET q == [p EXCEPT !.now = @ + latency] IN
  IF ~parsed THEN LoopCheck([q EXCEPT !.outcome = "parse_error"])
  ELSE [q EXCEPT !.outcome = IF IsComplete(data) THEN "complete" ELSE "incomplete",
                 !.body = data, !.result = data, !.pc = "returned"]

\* resp.json() settles after `latency` ticks: rejected, or the parsed body
StepJsonSettles(p, latency, parsed, data) ==
  LET q == [p EXCEPT !.now = @ + latency] IN
  IF ~parsed THEN LoopCheck([q EXCEPT !.outcome = "parse_error"])
  ELSE IF IsComplete(data)
       THEN [q EXCEPT !.outcome = "complete", !.body = data,
                      !.result = data, !.pc = "returned"]
       ELSE LoopCheck([q EXCEPT !.outcome = "incomplete", !.body = data])

InitPoll ==
  /\ run = RunIdle
  /\ risk = RiskIdle
  /\ poll \in { NewPoll(d, i) : d \in 0..MaxWaitTicks, i \in 1..MaxIntervalTicks }
  /\ HarnessIdle
  /\ AppIdle

PollStart ==
  /\ poll.pc = "called"
  /\ poll' = StepPollStart(poll)
  /\ UNCHANGED <<run, risk, harness, appvars>>

PollSleepDone ==
  /\ poll.pc = "sleeping"
  /\ \E late \in 0..MaxLate : poll' = StepSleepDone(poll, late)
  /\ UNCHANGED <<run, risk, harness, appvars>>

PollFetchSettles ==
  /\ poll.pc = "fetching"
  /\ \E latency \in 0..MaxLatency, how \in {"throw", "not_ok", "ok"} :
       poll' = StepFetchSettles(poll, latency, how)
  /\ UNCHANGED <<run, risk, harness, appvars>>

PollJsonSettles ==
  /\ poll.pc = "parsing"
  /\ \E latency \in 0..MaxLatency, parsed \in BOOLEAN, data \in Bodies :
       poll' = StepJsonSettles(poll, latency, parsed, data)
  /\ UNCHANGED <<run, risk, harness, appvars>>

NextPoll ==
  \/ PollStart
  \/ PollSleepDone
  \/ PollFetchSettles
  \/ PollJsonSettles

SpecPoll == InitPoll /\ [][NextPoll]_vars

CeilDiv(a, b) == (a + b - 1) \div b

\* C9: the number of fetch attempts of a call never exceeds
\* ceil(maxWaitMs / intervalMs).
C9_AttemptBound ==
  poll.attempts <= CeilDiv(poll.maxWaitMs, poll.intervalMs)

C9_Witness ==
  /\ poll.pc = "failed"
  /\ poll.attempts = CeilDiv(poll.maxWaitMs, poll.intervalMs)
  /\ poll.attempts >= 3
  /\ poll.maxWaitMs % poll.intervalMs # 0

\* C10: the call returns only after a fetch with an ok response whose body
\* has status "complete", and returns that body; a fetch that throws, a
\* non-ok response, an unparsable body or a body that is not complete never
\* ends the call by itself: the loop goes on to the next interval, and the
\* only failure is the timeout once the deadline has passed.
C10_OnlyCompleteReturns ==
  /\ poll.pc = "returned" =>
       /\ poll.outcome = "complete"
       /\ IsComplete(poll.body)
       /\ poll.result = poll.body
  /\ poll.pc = "failed" =>
       /\ poll.error = Some(TimeoutError)
       /\ poll.now >= poll.deadline
  /\ (poll.outcome \in {"throw", "not_ok", "parse_error", "incomplete"}) =>
       /\ poll.pc \in {"sleeping", "failed"}
       /\ poll.result = Null
       /\ poll.pc = "sleeping" <=> poll.now < poll.deadline

C10_Witness ==
  /\ poll.pc = "returned"
  /\ poll.attempts >= 2
  /\ poll.result = Some(("status" :> "complete") @@ ("_vetoed" :> TRUE))

\* every timer fires and every fetch and body read settles
FairSpecPoll == SpecPoll /\ WF_vars(NextPoll)

\* C11: a call in which no fetch yields an ok response with a complete body
\* eventually fails; the failure is the timeout error, whatever the fetches
\* did, and a failed call stays failed with that one error.
C11_TimesOut ==
  /\ (<>(poll.outcome = "complete"))
       \/ <>[](poll.pc = "failed" /\ poll.error = Some(TimeoutError))
  /\ [](poll.pc = "failed" => poll.error = Some(TimeoutError))
  /\ [][poll.pc = "failed" => poll' = poll]_vars

C11_Witness ==
  /\ poll.pc = "failed"
  /\ poll.error = Some(TimeoutError)
  /\ poll.attempts >= 2
  /\ poll.outcome \in {"throw", "parse_error"}

\* C12: no fetch is started at or after the deadline, and no result of a
\* fetch started after the deadline is returned.
C12_NoFetchPastDeadline ==
  /\ poll.attempts > 0 => poll.fetchAt < poll.deadline
  /\ poll.pc = "returned" => poll.fetchAt <= poll.deadline

\* ------------------------------------------------------------------------
\* The persisted audit log: getAuditEntries / saveAuditEntry (main.js)
\*
\* The stored value is the JSON text of an array of plain records; the
\* stringify/parse round trip returns the same array, so the log is kept as
\* the sequence itself, newest entry first.
\*   audit.log    the array stored under AUDIT_KEY
\*   audit.saved  every entry ever in the log, newest first, never cut
\*   audit.n      the number of saveAuditEntry calls made
\* ------------------------------------------------------------------------

AUDIT_CAP == 200

\* saves made after the initial log
MaxSaves == 3

\* saveAuditEntry that appends at the old end
saveAuditEntry_Append(entries, entry) ==
  LET e == entries \o <<entry>> IN
  IF Len(e) > AUDIT_CAP THEN SubSeq(e, 1, AUDIT_CAP) ELSE e

\* entries.unshift(entry); if (entries.length > 200) entries.length = 200
saveAuditEntry(entries, entry) ==
  LET e == <<entry>> \o entries IN
  IF Len(e) > AUDIT_CAP THEN SubSeq(e, 1, AUDIT_CAP) ELSE e

\* a stored log of len entries, numbered len (newest) down to 1 (oldest)
StoredLog(len) == [i \in 1..len |-> [id |-> len - i + 1]]

InitAudit ==
  /\ run = RunIdle
  /\ risk = RiskIdle
  /\ poll = PollIdle
  /\ sig = Idle
  /\ disp = Idle
  /\ idx = Idle
  /\ prof = Idle
  /\ table = TICKER_PROFILES
  /\ direct = Idle
  /\ AppIdle
  /\ audit \in { [pc |-> "ready", log |-> StoredLog(len),
                  saved |-> StoredLog(len), n |-> 0] : len \in 0..AUDIT_CAP }

AuditSave ==
  /\ audit.pc = "ready"
  /\ audit.n < MaxSaves
  /\ LET entry == [id |-> Len(audit.saved) + 1] IN
     audit' = [audit EXCEPT !.log   = saveAuditEntry(audit.log, entry),
                            !.saved = <<entry>> \o @,
                            !.n     = @ + 1]
  /\ UNCHANGED <<run, risk, poll, sig, disp, idx, prof, table, direct, appvars>>

NextAudit == AuditSave

SpecAudit == InitAudit /\ [][NextAudit]_vars

\* C15: after any number of saveAuditEntry calls the stored log has at most
\* 200 entries, which are exactly the most recent ones of all entries ever
\* stored, newest first; the entry saved last is at index 0 and only the
\* oldest entries are dropped.
C15_AuditLogBounded ==
  audit.pc = "ready" =>
    /\ Len(audit.log) <= 200
    /\ Len(audit.log) = Min(200, Len(audit.saved))
    /\ \A i \in 1..Len(audit.log) : audit.log[i] = audit.saved[i]
    /\ \A i \in 1..(Len(audit.log) - 1) : audit.log[i].id = audit.log[i + 1].id + 1
    /\ audit.n > 0 => audit.log[1].id = Len(audit.saved)

C15_Witness ==
  /\ audit.pc = "ready"
  /\ audit.n >= 2
  /\ Len(audit.saved) > 200
  /\ Len(audit.log) = 200
  /\ audit.log[200].id = Len(audit.saved) - 199

\* ------------------------------------------------------------------------
\* dispatchPipeline(event, token)
\*
\* A dispatch is a record
\*   pc        "called", "fetching" (await fetch), "reading_error"
\*             (await resp.json() of a non-ok response), "returned", "failed"
\*   event, token, now   the arguments and Date.now() at the call
\*   runId     the local `runId`: <<"run-", Date.now()>>
\*   requests  the requests sent with fetch, in order
\*   status    the HTTP status of the response (null before one arrives)
\*   parsed, body   whether resp.json() resolved, and with what value
\*   result    the value returned;  error  the error thrown (name, message)
\* A message is a tuple of its parts: <<text>> or <<"Dispatch failed: ", status>>.
\* ------------------------------------------------------------------------

\* largest Date.now() tried at the call
MaxClock == 2

Tokens == { <<"g","h","p","_","1">> }

Statuses == {200, 204, 401, 404, 422, 500}

\* Response.ok
IsOk(status) == status >= 200 /\ status <= 299

\* JSON bodies of an error response: null, or an object with or without a
\* message
ErrorBodies ==
  { Null,
    Some(EmptyObj),
    Some("message" :> <<>>),
    Some("message" :> <<"Bad credentials">>),
    Some(("message" :> <<"Not Found">>) @@ ("status" :> <<"404">>)) }

NewDispatch(event, token, now) ==
  [pc |-> "called", event |-> event, token |-> token, now |-> now,
   runId |-> Null, requests |-> <<>>, status |-> Null,
   parsed |-> FALSE, body |-> Null, result |-> Null, error |-> Null]

\* const runId = `run-${Date.now()}`; fetch(url, {method: 'POST', ...})
StepDispatchSend(d) ==
  LET runId == <<"run-", d.now>> IN
  [d EXCEPT !.runId    = Some(runId),
            !.requests = @ \o <<[method  |-> "POST",
                                 headers |-> [Authorization |-> <<"Bearer ", d.token>>],
                                 body    |-> [ref    |-> "main",
                                              inputs |-> [headline |-> d.event.headline,
                                                          ticker   |-> d.event.ticker,
                                                          source   |-> d.event.source,
                                                          run_id   |-> runId]]]>>,
            !.pc       = "fetching"]

\* fetch rejects: the rejection leaves dispatchPipeline as it is
StepDispatchFetchThrows(d) ==
  [d EXCEPT !.pc    = "failed",
            !.error = Some([name |-> "TypeError", message |-> <<"Failed to fetch">>])]

\* fetch resolves with a response of the given status
StepDispatchResponds(d, status) ==
  IF IsOk(status)
  THEN [d EXCEPT !.status = Some(status), !.result = d.runId, !.pc = "returned"]
  ELSE [d EXCEPT !.status = Some(status), !.pc = "reading_error"]

\* const err = await resp.json().catch(() => ({}));
\* throw new Error(err.message || `Dispatch failed: ${resp.status}`)
StepDispatchErrorBody(d, parsed, data) ==
  LET err == IF parsed THEN data ELSE Some(EmptyObj) IN
  IF err = Null
  THEN \* reading .message of null throws a TypeError
       [d EXCEPT !.parsed = parsed, !.body = data, !.pc = "failed",
                 !.error = Some([name    |-> "TypeError",
                                 message |-> <<"Cannot read properties of null (reading 'message')">>])]
  ELSE
    LET message == IF "message" \in DOMAIN err[1] /\ err[1]["message"] # <<>>
                   THEN err[1]["message"]
                   ELSE <<"Dispatch failed: ", d.status[1]>>
    IN
    [d EXCEPT !.parsed = parsed, !.body = data, !.pc = "failed",
              !.error = Some([name |-> "Error", message |-> message])]

InitDispatch ==
  /\ run = RunIdle
  /\ risk = RiskIdle
  /\ poll = PollIdle
  /\ sig = Idle
  /\ audit = Idle
  /\ idx = Idle
  /\ prof = Idle
  /\ table = TICKER_PROFILES
  /\ direct = Idle
  /\ AppIdle
  /\ disp \in { NewDispatch(e, t, now) : e \in Events, t \in Tokens, now \in 0..MaxClock }

DispatchSend ==
  /\ disp.pc = "called"
  /\ disp' = StepDispatchSend(disp)
  /\ UNCHANGED <<run, risk, poll, sig, audit, idx, prof, table, direct, appvars>>

DispatchFetchThrows ==
  /\ disp.pc = "fetching"
  /\ disp' = StepDispatchFetchThrows(disp)
  /\ UNCHANGED <<run, risk, poll, sig, audit, idx, prof, table, direct, appvars>>

DispatchResponds ==
  /\ disp.pc = "fetching"
  /\ \E status \in Statuses : disp' = StepDispatchResponds(disp, status)
  /\ UNCHANGED <<run, risk, poll, sig, audit, idx, prof, table, direct, appvars>>

DispatchErrorBody ==
  /\ disp.pc = "reading_error"
  /\ \E parsed \in BOOLEAN, data \in ErrorBodies :
       disp' = StepDispatchErrorBody(disp, parsed, data)
  /\ UNCHANGED <<run, risk, poll, sig, audit, idx, prof, table, direct, appvars>>

NextDispatch ==
  \/ DispatchSend
  \/ DispatchFetchThrows
  \/ DispatchResponds
  \/ DispatchErrorBody

SpecDispatch == InitDispatch /\ [][NextDispatch]_vars

\* the body of the error response has a non-empty message field
HasMessage(d) ==
  /\ d.parsed
  /\ d.body # Null
  /\ "message" \in DOMAIN d.body[1]
  /\ d.body[1]["message"] # <<>>

\* C16: a call sends exactly one request; on a 2xx response it returns the
\* run identifier it placed in the request's run_id input; on any other
\* response it fails with an error whose message is the body's message field
\* when that is present and non-empty and "Dispatch failed: <status>"
\* otherwise, also when the body cannot be parsed.
C16_DispatchOutcome ==
  /\ Len(disp.requests) <= 1
  /\ disp.pc \in {"fetching", "reading_error", "returned", "failed"} =>
       Len(disp.requests) = 1
  /\ disp.pc = "returned" =>
       /\ IsOk(disp.status[1])
       /\ disp.result = Some(disp.requests[1].body.inputs.run_id)
  /\ (disp.pc = "failed" /\ disp.status # Null) =>
       /\ ~IsOk(disp.status[1])
       /\ disp.error[1].message =
            (IF HasMessage(disp) THEN disp.body[1]["message"]
             ELSE <<"Dispatch failed: ", disp.status[1]>>)

\* ------------------------------------------------------------------------
\* runSignalAgent as a function of the research payload, next to the runs of
\* the orchestrator
\* ------------------------------------------------------------------------

\* largest confidence tried, hundredths (1.00)
MaxConfidence == 100

InitSignal ==
  /\ run = RunIdle
  /\ risk = RiskIdle
  /\ poll = PollIdle
  /\ disp = Idle
  /\ audit = Idle
  /\ idx = Idle
  /\ prof = Idle
  /\ table = TICKER_PROFILES
  /\ direct = Idle
  /\ AppIdle
  /\ sig \in { [pc |-> "call", event |-> e,
                researchPayload |-> runResearcher(e, c), out |-> Null]
               : e \in Events, c \in 0..MaxConfidence }

SignalCall ==
  /\ sig.pc = "call"
  /\ sig' = [sig EXCEPT !.pc = "done",
                        !.out = Some(runSignalAgent(sig.event, sig.researchPayload))]
  /\ UNCHANGED <<run, risk, poll, disp, audit, idx, prof, table, direct, appvars>>

NextSignal ==
  \/ SignalCall
  \/ NextMock

SpecSignal == (InitSignal \/ InitMock) /\ [][NextSignal]_vars

\* C17: for a confidence c, size_pct is min(12 c, 8) rounded to the nearest
\* tenth and lies between 0 and 8; so in a run of the orchestrator size_pct
\* never exceeds 20 and Risk vetoes exactly when the action is HOLD.
C17_SignalSize ==
  /\ sig.pc = "done" =>
       LET x  == Min(12 * sig.researchPayload.confidence, 800)
           sz == sig.out[1].size_pct
       IN
       /\ 0 <= sz /\ sz <= 80
       /\ -5 < 10 * sz - x /\ 10 * sz - x <= 5
  /\ run.pc # "idle" =>
       /\ "signal_agent" \in DOMAIN run.results =>
            run.results["signal_agent"].size_pct <= 200
       /\ HasRisk =>
            (run.results["risk_manager"].veto
               <=> run.results["signal_agent"].action = "HOLD")

C17_Witness ==
  /\ sig.pc = "done"
  /\ sig.researchPayload.confidence = 37
  /\ sig.out[1].size_pct = 44

\* ------------------------------------------------------------------------
\* loadRunsIndex()
\*
\* A JSON value is a tagged record: [type |-> "array", items |-> <<..>>],
\* [type |-> "null"] or [type |-> "object", ..].  An index load is a record
\*   pc       "called", "fetching", "parsing", "returned" or "failed"
\*   now      Date.now() at the call (the cache-busting parameter)
\*   outcome  "pending", "throw" (fetch rejected), "not_ok", "parse_error"
\*            (resp.json() rejected) or "parsed"
\*   status   the HTTP status received;  body  the parsed body
\*   result   the value returned;  error  the error thrown
\* ------------------------------------------------------------------------

\* longest runs index tried
MaxIndexLen == 3

JsonArray(items) == [type |-> "array", items |-> items]

EmptyList == JsonArray(<<>>)

RunSummaries == { [run_id |-> <<"run-", 0>>, vetoed |-> FALSE],
                  [run_id |-> <<"run-", 1>>, vetoed |-> TRUE] }

IndexBodies ==
  { JsonArray(items) :
      items \in UNION { [1..n -> RunSummaries] : n \in 0..MaxIndexLen } }
  \cup { [type |-> "null"], [type |-> "object", message |-> "Not Found"] }

NewIndexLoad(now) ==
  [pc |-> "called", now |-> now, url |-> Null, outcome |-> "pending",
   status |-> Null, body |-> Null, result |-> Null, error |-> Null]

\* fetch(`./data/runs-index.json?t=${Date.now()}`)
StepIndexFetch(x) ==
  [x EXCEPT !.url = Some(<<"./data/runs-index.json?t=", x.now>>),
            !.pc  = "fetching"]

\* fetch rejects: catch { return [] }
StepIndexFetchThrows(x) ==
  [x EXCEPT !.outcome = "throw", !.result = Some(EmptyList), !.pc = "returned"]

\* if (!resp.ok) return []
StepIndexResponds(x, status) ==
  IF IsOk(status)
  THEN [x EXCEPT !.status = Some(status), !.pc = "parsing"]
  ELSE [x EXCEPT !.status = Some(status), !.outcome = "not_ok",
                 !.result = Some(EmptyList), !.pc = "returned"]

\* a body read whose rejection leaves the function
StepIndexJson_NoCatch(x, parsed, data) ==
  IF parsed
  THEN [x EXCEPT !.outcome = "parsed", !.body = Some(data),
                 !.result = Some(data), !.pc = "returned"]
  ELSE [x EXCEPT !.outcome = "parse_error", !.pc = "failed",
                 !.error = Some("SyntaxError")]

\* return await resp.json(), inside the try
StepIndexJson(x, parsed, data) ==
  IF parsed
  THEN [x EXCEPT !.outcome = "parsed", !.body = Some(data),
                 !.result = Some(data), !.pc = "returned"]
  ELSE [x EXCEPT !.outcome = "parse_error",
                 !.result = Some(EmptyList), !.pc = "returned"]

InitIndex ==
  /\ run = RunIdle
  /\ risk = RiskIdle
  /\ poll = PollIdle
  /\ sig = Idle
  /\ disp = Idle
  /\ audit = Idle
  /\ prof = Idle
  /\ table = TICKER_PROFILES
  /\ direct = Idle
  /\ AppIdle
  /\ idx \in { NewIndexLoad(now) : now \in 0..MaxClock }

IndexFetch ==
  /\ idx.pc = "called"
  /\ idx' = StepIndexFetch(idx)
  /\ UNCHANGED <<run, risk, poll, sig, disp, audit, prof, table, direct, appvars>>

IndexFetchThrows ==
  /\ idx.pc = "fetching"
  /\ idx' = StepIndexFetchThrows(idx)
  /\ UNCHANGED <<run, risk, poll, sig, disp, audit, prof, table, direct, appvars>>

IndexResponds ==
  /\ idx.pc = "fetching"
  /\ \E status \in Statuses : idx' = StepIndexResponds(idx, status)
  /\ UNCHANGED <<run, risk, poll, sig, disp, audit, prof, table, direct, appvars>>

IndexJson ==
  /\ idx.pc = "parsing"
  /\ \E parsed \in BOOLEAN, data \in IndexBodies :
       idx' = StepIndexJson(idx, parsed, data)
  /\ UNCHANGED <<run, risk, poll, sig, disp, audit, prof, table, direct, appvars>>

NextIndex ==
  \/ IndexFetch
  \/ IndexFetchThrows
  \/ IndexResponds
  \/ IndexJson

SpecIndex == InitIndex /\ [][NextIndex]_vars

\* C19: loadRunsIndex never fails; it returns the empty list when the fetch
\* throws, when the response is not ok and when the body cannot be parsed,
\* and returns the parsed body only for an ok response.
C19_IndexNeverFails ==
  /\ idx.pc # "failed"
  /\ idx.pc \in {"called", "fetching", "parsing", "returned"} => idx.error = Null
  /\ idx.pc = "returned" =>
       IF idx.outcome = "parsed"
       THEN /\ IsOk(idx.status[1])
            /\ idx.result = idx.body
       ELSE /\ idx.outcome \in {"throw", "not_ok", "parse_error"}
            /\ idx.result = Some(EmptyList)

C19_Witness ==
  /\ idx.pc = "returned"
  /\ idx.outcome = "parse_error"
  /\ idx.status = Some(200)
  /\ idx.result = Some(EmptyList)

\* ------------------------------------------------------------------------
\* getProfile as a function of the ticker, next to the runs of the
\* orchestrator
\* ------------------------------------------------------------------------

LowerChar(ch) ==
  IF \E i \in 1..Len(UpperLetters) : UpperLetters[i] = ch
  THEN LowerLetters[CHOOSE i \in 1..Len(UpperLetters) : UpperLetters[i] = ch]
  ELSE ch

\* every way of writing a key in upper and lower case
CaseVariants(key) ==
  { s \in [1..Len(key) -> { key[i] : i \in 1..Len(key) }
                            \cup { LowerChar(key[i]) : i \in 1..Len(key) }] :
      \A i \in 1..Len(key) : s[i] \in {key[i], LowerChar(key[i])} }

ProfileTickers ==
  UNION { CaseVariants(k) : k \in DOMAIN TICKER_PROFILES }
  \cup Tickers
  \cup { <<"N","V","D">>, <<"N","V","D","A","X">>, <<"s","p","y","1">>,
         <<"B","R","K",".","B">>, <<" ","S","P","Y">> }

InitProfile ==
  /\ run = RunIdle
  /\ risk = RiskIdle
  /\ poll = PollIdle
  /\ sig = Idle
  /\ disp = Idle
  /\ audit = Idle
  /\ idx = Idle
  /\ table = TICKER_PROFILES
  /\ direct = Idle
  /\ AppIdle
  /\ prof \in { [pc |-> "call", ticker |-> t, out |-> Null] : t \in ProfileTickers }

ProfileCall ==
  /\ prof.pc = "call"
  /\ prof' = [prof EXCEPT !.pc = "done", !.out = Some(getProfile(prof.ticker))]
  /\ UNCHANGED <<run, risk, poll, sig, disp, audit, idx, table, direct, appvars>>

NextProfile ==
  \/ ProfileCall
  \/ NextMock

SpecProfile == (InitProfile \/ InitMock) /\ [][NextProfile]_vars

\* C20: getProfile(ticker) = getProfile(upper-cased ticker); a ticker whose
\* upper-cased form is one of the six keys gets that key's profile and every
\* other ticker the neutral profile (NEUTRAL, HOLD, 100, 95, 108, 0.8); and
\* the table keeps its six entries through every run.
C20_ProfileLookup ==
  /\ table = TICKER_PROFILES
  /\ DOMAIN table = {NVDA, AAPL, SPY, MSFT, TSLA, META}
  /\ prof.pc = "done" =>
       LET upper == toUpperCase(prof.ticker) IN
       /\ prof.out = Some(getProfile(upper))
       /\ upper \in {NVDA, AAPL, SPY, MSFT, TSLA, META} =>
            prof.out = Some(table[upper])
       /\ upper \notin {NVDA, AAPL, SPY, MSFT, TSLA, META} =>
            prof.out = Some([bias |-> "NEUTRAL", action |-> "HOLD", price |-> 10000,
                             stop |-> 9500, tp |-> 10800, sharpe |-> 8])

C20_Witness ==
  /\ prof.pc = "done"
  /\ prof.ticker = <<"m","S","f","T">>
  /\ prof.out = Some(TICKER_PROFILES[MSFT])

\* ------------------------------------------------------------------------
\* The dashboard (main.js): window.runPipeline, runRealPipeline,
\* runLocalMock, applyResultsToUI, persistAuditEntries, the token modal
\*
\* app is the module state of main.js together with the browser stores:
\*   pc          "ready" (no run in progress) or the await window.runPipeline
\*               is suspended at: "mock" (runLocalMock), "dispatching"
\*               (dispatchPipeline), "polling" (pollForResult), "fallback"
\*               (runLocalMock in the catch of runRealPipeline)
\*   token       the sessionStorage slot TOKEN_KEY (null or <<value>>)
\*   runCount, vetoCount, auditCount   the module counters
\*   stats       the localStorage slot STATS_KEY (null or <<record>>)
\*   auditLog    the array stored under AUDIT_KEY
\*   btnDisabled, label   the run button
\*   cards, hidden   what each stage card shows ("by" names the writer:
\*               "mock", "preview" or "real") and the cards with display none
\*   event       the event of the current run
\*   local       the locals vetoed, allPayloads, logId of the non-preview
\*               runLocalMock in progress
\* and, for stating properties: started (invocations of window.runPipeline
\* so far), lastTokenOp (the last token operation, where a blank save on a
\* non-empty slot is not recorded), and of the current run: mode ("mock" or
\* "remote"), dispatches, polls,
\* previews, mocks (requests, poll loops, preview and non-preview mock runs
\* started), dispatchFailed, previewCalls (callbacks of preview runs),
\* auditAtStart (auditCount when the run started), result (once the run has
\* finished: which Run Result it showed, "mock" or "real", and whether that
\* result is vetoed).
\* The non-preview orchestrator run is `run`, the dispatch `disp`, the poll
\* loop `poll`; `preview` is the sequence of preview runLocalMock invocations
\* still in flight (each with its own locals).  A finished call is dropped.
\* Date.now() is 0 wherever the dashboard only uses it to build an
\* identifier.  Toasts, tags and styling are not part of the state.
\* ------------------------------------------------------------------------

\* times the user may press the run button
MaxRuns == 1

AGENT_ORDER ==
  <<"researcher", "signal_agent", "risk_manager", "execution_agent", "supervisor">>

Space == " "

RECURSIVE TrimStart(_)
TrimStart(s) ==
  IF s # <<>> /\ Head(s) = Space THEN TrimStart(Tail(s)) ELSE s

RECURSIVE TrimEnd(_)
TrimEnd(s) ==
  IF s # <<>> /\ s[Len(s)] = Space THEN TrimEnd(SubSeq(s, 1, Len(s) - 1)) ELSE s

\* String.prototype.trim
Trim(s) == TrimEnd(TrimStart(s))

\* what the user may have typed into the form
HeadlineInputs == { <<>>, <<Space>>, <<"N","V","D","A",Space,"u","p">> }

TickerInputs == { <<>>, <<"n","v","d","a">>, <<Space,"i","b","m",Space>> }

SourceInputs == { <<Space>> }

TokenInputs == { <<>>, <<Space, Space>>, <<"g","h","p">>, <<Space,"g","h","p",Space>> }

\* the random draws of the stage simulators tried in dashboard runs
AppConfidences == {80}

AppSlippages == {SlipBase}

\* the random suffix of a log id
LogSuffixes == {4711}

\* pollForResult defaults, in ticks: 120000 ms and 3000 ms
DEFAULT_MAX_WAIT == 240

DEFAULT_INTERVAL == 6

\* loadToken: sessionStorage.getItem(TOKEN_KEY) ?? ''
loadToken(a) == IF a.token = Null THEN <<>> ELSE a.token[1]

\* hasToken: Boolean(loadToken())
hasToken(a) == loadToken(a) # <<>>

\* buildAgentThread: fresh cards, all waiting and visible
FreshCards ==
  [k \in { AGENT_ORDER[i] : i \in 1..Len(AGENT_ORDER) } |->
     [state |-> "waiting", payload |-> Null, by |-> "none"]]

buildAgentThread(a) == [a EXCEPT !.cards = FreshCards, !.hidden = {}]

\* setAgentState(key, state, .., payload)
setAgentState(a, key, state, payload, by) ==
  [a EXCEPT !.cards[key] = [state |-> state, payload |-> Some(payload), by |-> by]]

\* the parameter and the locals of a runLocalMock invocation
NewLocal(logSuffix, isPreview) ==
  [preview |-> isPreview, vetoed |-> FALSE, allPayloads |-> EmptyObj,
   logId |-> <<"TRD-", logSuffix>>]

NoLocal ==
  [preview |-> FALSE, vetoed |-> FALSE, allPayloads |-> EmptyObj, logId |-> <<>>]

InitApp ==
  /\ run = RunIdle
  /\ risk = RiskIdle
  /\ poll = PollIdle
  /\ HarnessIdle
  /\ preview = <<>>
  /\ app \in { [pc |-> "ready", token |-> t,
                runCount |-> 0, vetoCount |-> 0, auditCount |-> 0,
                stats |-> Null, auditLog |-> <<>>,
                btnDisabled |-> FALSE, label |-> <<"Run Pipeline">>,
                cards |-> FreshCards, hidden |-> {},
                event |-> Null, local |-> NoLocal,
                mode |-> "none", started |-> 0, lastTokenOp |-> "none",
                dispatches |-> 0, polls |-> 0, previews |-> 0, mocks |-> 0,
                dispatchFailed |-> FALSE, previewCalls |-> 0,
                auditAtStart |-> 0, result |-> Null]
               : t \in {Null, Some(<<"g","h","p">>)} }

\* the callback runLocalMock passes to runMockPipeline: its writes to the
\* locals of the invocation
CallbackLocal(l, agentKey, payload) ==
  [l EXCEPT !.allPayloads = (agentKey :> payload) @@ @,
            !.vetoed      = @ \/ (agentKey = "risk_manager" /\ payload.veto)]

\* the same callback: its writes to the dashboard
CallbackApp(a, agentKey, payload, by) ==
  IF agentKey = "risk_manager" /\ payload.veto
  THEN [setAgentState(a, agentKey, "vetoed", payload, by)
          EXCEPT !.vetoCount = @ + 1,
                 !.hidden    = @ \cup {"execution_agent", "supervisor"}]
  ELSE setAgentState(a, agentKey, "done", payload, by)

agentTypeLabel(ag) ==
  CASE ag = "researcher"      -> "RESEARCH_SIGNAL"
    [] ag = "signal_agent"    -> "TRADE_PROPOSAL"
    [] ag = "risk_manager"    -> "RISK_DECISION"
    [] ag = "execution_agent" -> "EXECUTION_PLAN"
    [] ag = "supervisor"      -> "AUDIT_COMPLETE"
    [] OTHER                  -> "MESSAGE"

\* buildSummary, as the tuple of the values it interpolates
buildSummary(ag, payloads, event) ==
  IF ag \notin DOMAIN payloads THEN <<"-">>
  ELSE
    LET payload == payloads[ag]
        t       == toUpperCase(event.ticker)
    IN
    CASE ag = "researcher"      -> <<payload.signal, t>>
      [] ag = "signal_agent"    -> <<payload.action, t, payload.entry_price>>
      [] ag = "risk_manager"    -> <<payload.verdict>>
      [] ag = "execution_agent" -> <<payload.strategy>>
      [] ag = "supervisor"      -> <<payload.audit_status>>

RECURSIVE SaveAll(_, _)
SaveAll(stored, entries) ==
  IF entries = <<>> THEN stored
  ELSE SaveAll(saveAuditEntry(stored, Head(entries)), Tail(entries))

Reverse(s) == [i \in 1..Len(s) |-> s[Len(s) - i + 1]]

persistAuditEntries_AllAgents(a, event, payloads, logId, vetoed) ==
  LET agentsToLog == AGENT_ORDER
      entries == [i \in 1..Len(agentsToLog) |->
                    [agent   |-> agentsToLog[i],
                     type    |-> agentTypeLabel(agentsToLog[i]),
                     id      |-> <<logId, i - 1>>,
                     summary |-> buildSummary(agentsToLog[i], payloads, event)]]
  IN
  [a EXCEPT !.auditLog   = SaveAll(@, Reverse(entries)),
            !.auditCount = @ + Len(entries)]

persistAuditEntries(a, event, payloads, logId, vetoed) ==
  LET agentsToLog == IF vetoed
                     THEN <<"researcher", "signal_agent", "risk_manager", "supervisor">>
                     ELSE AGENT_ORDER
      entries == [i \in 1..Len(agentsToLog) |->
                    [agent   |-> agentsToLog[i],
                     type    |-> agentTypeLabel(agentsToLog[i]),
                     id      |-> <<logId, i - 1>>,
                     summary |-> buildSummary(agentsToLog[i], payloads, event)]]
  IN
  [a EXCEPT !.auditLog   = SaveAll(@, Reverse(entries)),
            !.auditCount = @ + Len(entries)]

\* the steps the orchestrator can take from m
MockSteps(m) ==
  CASE m.pc = "delay_researcher"      -> { StepResearcher(m, c) : c \in AppConfidences }
    [] m.pc = "delay_signal"          -> { StepSignal(m) }
    [] m.pc = "delay_risk"            -> { StepRisk(m) }
    [] m.pc = "delay_veto_supervisor" -> { StepVetoSupervisor(m) }
    [] m.pc = "delay_execution"       -> { StepExecution(m, s) : s \in AppSlippages }
    [] m.pc = "delay_supervisor"      -> { StepSupervisor(m) }
    [] OTHER                          -> {}

\* the arguments of the callback call a step just made
LastCall(m) == m.trace[Len(m.trace)].args

\* runLocalMock(event) up to its first await
StartMock(a, logSuffix) ==
  [a EXCEPT !.local = NewLocal(logSuffix, FALSE), !.mocks = @ + 1]

\* runLocalMock after its await: lines 265-266
EndMock(a, l) ==
  LET b == IF l.vetoed
           THEN [a EXCEPT !.vetoCount = IF @ > 0 THEN @ ELSE 0]
           ELSE a
  IN
  IF l.preview THEN b
  ELSE persistAuditEntries(b, b.event[1], l.allPayloads, l.logId, l.vetoed)

\* window.runPipeline after its await: lines 196-203
FinishRun(a) ==
  LET b == [a EXCEPT !.runCount = @ + 1] IN
  [b EXCEPT !.stats = Some([runCount   |-> b.runCount,
                            vetoCount  |-> b.vetoCount,
                            auditCount |-> b.auditCount]),
            !.btnDisabled = FALSE,
            !.label = <<"Run Again">>,
            !.local = NoLocal,
            !.pc = "ready"]

Unknown == <<"U","n","k","n","o","w","n">>

\* the delay before each stage of runMockPipeline, ms, without the jitter
DelayMs ==
  [delay_researcher |-> 600, delay_signal |-> 700, delay_risk |-> 800,
   delay_veto_supervisor |-> 500, delay_execution |-> 700,
   delay_supervisor |-> 600]

\* jitter() is below this many ms
JITTER == 400

MsPerTick == 1000 \div TicksPerSec

\* the stages whose delays have to pass, in order, before the step at pc
DelayPath(pc) ==
  CASE pc = "delay_researcher" -> <<"delay_researcher">>
    [] pc = "delay_signal"     -> <<"delay_researcher", "delay_signal">>
    [] pc = "delay_risk"       -> <<"delay_researcher", "delay_signal", "delay_risk">>
    [] pc = "delay_veto_supervisor" ->
         <<"delay_researcher", "delay_signal", "delay_risk", "delay_veto_supervisor">>
    [] pc = "delay_execution"  ->
         <<"delay_researcher", "delay_signal", "delay_risk", "delay_execution">>
    [] pc = "delay_supervisor" ->
         <<"delay_researcher", "delay_signal", "delay_risk", "delay_execution",
           "delay_supervisor">>

RECURSIVE LatestElapsed(_)
LatestElapsed(path) ==
  IF path = <<>> THEN 0
  ELSE DelayMs[Head(path)] + JITTER + LatestElapsed(Tail(path))

\* a preview started together with the poll loop can still be waiting at pc
\* when the loop's clock shows `ticks`: its timer is due before
\* LatestElapsed, and timers fire in the order they are due
CanBePending(pc, ticks) == LatestElapsed(DelayPath(pc)) > ticks * MsPerTick

PreviewsAllow(ticks) ==
  \A i \in DOMAIN preview : CanBePending(preview[i].m.pc, ticks)

\* lateness of the sleep timer and latencies of the fetches tried in
\* dashboard runs, ticks
AppLates == {0}

AppLatencies == {0}

\* what the backend may have stored for the run: nothing complete yet, a bare
\* complete marker, or a full result (approved or vetoed) of the schema the
\* mock stages produce, with the supervisor's log id
RealEvent(ticker) ==
  [headline |-> <<"N","V","D","A",Space,"u","p">>, ticker |-> ticker,
   source |-> Unknown]

RealRun(ticker) ==
  LET m3 == StepRisk(StepSignal(StepResearcher(NewRun(RealEvent(ticker)), ConfBase)))
      m5 == IF m3.pc = "delay_veto_supervisor" THEN StepVetoSupervisor(m3)
            ELSE StepSupervisor(StepExecution(m3, SlipBase))
      supervisor == [log_id |-> <<"TRD-", 1>>] @@ m5.ret["supervisor"]
  IN
  ("status" :> "complete") @@ ("supervisor" :> supervisor) @@ m5.ret

AppBodies ==
  { Some("status" :> "running"),
    Some("status" :> "complete"),
    Some(RealRun(NVDA)),
    Some(RealRun(<<"I","B","M">>)) }

\* applyResultsToUI(result, event)
applyResultsToUI(a, result, event) ==
  LET keys     == { AGENT_ORDER[i] : i \in 1..Len(AGENT_ORDER) }
      present  == keys \cap DOMAIN result
      agentMap == [k \in present |-> result[k]]
      vetoed   == IF "risk_manager" \in present THEN result["risk_manager"].veto
                  ELSE FALSE
      logId    == IF "supervisor" \in present
                     /\ "log_id" \in DOMAIN result["supervisor"]
                  THEN result["supervisor"].log_id
                  ELSE <<"TRD-REAL-", 0>>
      shown    == [a EXCEPT !.cards =
                     [k \in keys |->
                        IF k \in present
                        THEN [state   |-> IF k = "risk_manager" /\ vetoed
                                          THEN "vetoed" ELSE "done",
                              payload |-> Some(result[k]),
                              by      |-> "real"]
                        ELSE a.cards[k]]]
      counted  == IF vetoed
                  THEN [shown EXCEPT !.vetoCount = @ + 1,
                                     !.hidden = @ \cup {"execution_agent", "supervisor"}]
                  ELSE shown
  IN
  persistAuditEntries(counted, event, agentMap, logId, vetoed)

\* the catch of runRealPipeline up to the await of runLocalMock
Fallback_AsPreview(a, message, logSuffix) ==
  [StartMock([a EXCEPT !.pc = "fallback"], logSuffix)
     EXCEPT !.local.preview = TRUE]

Fallback(a, message, logSuffix) ==
  StartMock([a EXCEPT !.pc = "fallback"], logSuffix)

\* a Run Result with the _vetoed flag set
ResultVetoed(r) == "_vetoed" \in DOMAIN r /\ r["_vetoed"]

\* window.runPipeline up to its await
RunPipeline(h, t, s, logSuffix) ==
  /\ app.pc = "ready"
  /\ ~app.btnDisabled
  /\ app.started < MaxRuns
  /\ LET headline == Trim(h)
         ticker   == toUpperCase(Trim(t))
         source   == IF Trim(s) = <<>> THEN Unknown ELSE Trim(s)
         event    == [headline |-> headline, ticker |-> ticker, source |-> source]
         token    == loadToken(app)
         begun    == buildAgentThread(
                       [app EXCEPT !.btnDisabled = TRUE,
                                   !.event = Some(event),
                                   !.started = @ + 1,
                                   !.dispatches = 0, !.polls = 0,
                                   !.previews = 0, !.mocks = 0,
                                   !.dispatchFailed = FALSE,
                                   !.previewCalls = 0,
                                   !.auditAtStart = app.auditCount,
                                   !.result = Null])
     IN
     IF headline = <<>> \/ ticker = <<>>
     THEN /\ app' = [app EXCEPT !.started = @ + 1]
          /\ UNCHANGED <<run, disp>>
     ELSE IF token # <<>>
     THEN /\ disp' = StepDispatchSend(NewDispatch(event, token, 0))
          /\ app' = [begun EXCEPT !.label = <<"Dispatching to GitHub Actions...">>,
                                  !.mode = "remote",
                                  !.dispatches = @ + 1,
                                  !.pc = "dispatching"]
          /\ UNCHANGED run
     ELSE /\ run' = NewRun(event)
          /\ app' = StartMock([begun EXCEPT !.label = <<"Running (mock)...">>,
                                            !.mode = "mock",
                                            !.pc = "mock"],
                              logSuffix)
          /\ UNCHANGED disp
  /\ UNCHANGED <<risk, poll, sig, audit, idx, prof, table, direct, preview>>

\* a timer of the awaited runLocalMock fires: one stage of the orchestrator,
\* its callback, and on the last stage everything up to the end of
\* window.runPipeline
AppMockStep ==
  /\ app.pc \in {"mock", "fallback"}
  /\ \E m2 \in MockSteps(run) :
       LET call == LastCall(m2)
           l2   == CallbackLocal(app.local, call[1], call[2])
           a2   == [CallbackApp(app, call[1], call[2], "mock") EXCEPT !.local = l2]
       IN
       IF m2.pc = "returned"
       THEN /\ app' = [FinishRun(EndMock(a2, l2))
                        EXCEPT !.result = Some([by     |-> "mock",
                                                vetoed |-> ResultVetoed(m2.ret)])]
            /\ run' = RunIdle
       ELSE /\ app' = a2
            /\ run' = m2
  /\ UNCHANGED <<risk, poll, harness, preview>>

\* what lastTokenOp records of a save of v
NoteSave(a, v) ==
  [a EXCEPT !.lastTokenOp = IF Trim(v) # <<>> THEN "saved"
                            ELSE IF a.token = Null THEN "blank_on_empty"
                            ELSE @]

\* window.saveGhToken with v typed into the token field
SaveGhToken_NoTrim(v) ==
  /\ LET val == v IN
     IF val = <<>>
     THEN app' = NoteSave(app, v)
     ELSE app' = [NoteSave(app, v) EXCEPT !.token = Some(val)]
  /\ UNCHANGED <<run, risk, poll, harness, preview>>

SaveGhToken(v) ==
  /\ LET val == Trim(v) IN
     IF val = <<>>
     THEN app' = NoteSave(app, v)
     ELSE app' = [NoteSave(app, v) EXCEPT !.token = Some(val)]
  /\ UNCHANGED <<run, risk, poll, harness, preview>>

\* window.clearGhToken
ClearGhToken ==
  /\ app' = [app EXCEPT !.token = Null, !.lastTokenOp = "cleared"]
  /\ UNCHANGED <<run, risk, poll, harness, preview>>

\* dispatchPipeline's fetch rejects: runRealPipeline's catch
AppDispatchFetchThrows(logSuffix) ==
  /\ app.pc = "dispatching"
  /\ disp.pc = "fetching"
  /\ LET d2 == StepDispatchFetchThrows(disp) IN
     /\ app' = Fallback([app EXCEPT !.dispatchFailed = TRUE],
                        d2.error[1].message, logSuffix)
     /\ run' = NewRun(app.event[1])
     /\ disp' = Idle
  /\ UNCHANGED <<risk, poll, sig, audit, idx, prof, table, direct, preview>>

\* the response to the dispatch arrives; on a 2xx runRealPipeline goes on to
\* start the preview and the poll loop (lines 211-216)
AppDispatchResponds(status, logSuffix) ==
  /\ app.pc = "dispatching"
  /\ disp.pc = "fetching"
  /\ LET d2 == StepDispatchResponds(disp, status) IN
     IF d2.pc = "returned"
     THEN /\ app' = [app EXCEPT !.label = <<"Waiting for GitHub Actions...">>,
                                !.previews = @ + 1,
                                !.polls = @ + 1,
                                !.pc = "polling"]
          /\ preview' = Append(preview, [m     |-> NewRun(app.event[1]),
                                         local |-> NewLocal(logSuffix, TRUE)])
          /\ poll' = StepPollStart(NewPoll(DEFAULT_MAX_WAIT, DEFAULT_INTERVAL))
          /\ disp' = Idle
     ELSE /\ disp' = d2
          /\ UNCHANGED <<app, preview, poll>>
  /\ UNCHANGED <<run, risk, sig, audit, idx, prof, table, direct>>

\* the body of a non-2xx response is read: dispatchPipeline throws
AppDispatchErrorBody(parsed, data, logSuffix) ==
  /\ app.pc = "dispatching"
  /\ disp.pc = "reading_error"
  /\ LET d2 == StepDispatchErrorBody(disp, parsed, data) IN
     /\ app' = Fallback([app EXCEPT !.dispatchFailed = TRUE],
                        d2.error[1].message, logSuffix)
     /\ run' = NewRun(app.event[1])
     /\ disp' = Idle
  /\ UNCHANGED <<risk, poll, sig, audit, idx, prof, table, direct, preview>>

\* what runRealPipeline does when pollForResult has moved to p2
AfterPoll(p2, logSuffix) ==
  IF p2.pc = "returned"
  THEN /\ app' = [FinishRun(applyResultsToUI(buildAgentThread(app),
                                             p2.result[1], app.event[1]))
                   EXCEPT !.result = Some([by     |-> "real",
                                           vetoed |-> ResultVetoed(p2.result[1])])]
       /\ poll' = PollIdle
       /\ UNCHANGED run
  ELSE IF p2.pc = "failed"
  THEN /\ app' = Fallback(app, <<p2.error[1]>>, logSuffix)
       /\ run' = NewRun(app.event[1])
       /\ poll' = PollIdle
  ELSE /\ poll' = p2
       /\ UNCHANGED <<app, run>>

\* the poll loop's sleep ends: onPing, then the fetch is started
AppPollSleepDone(late) ==
  /\ app.pc = "polling"
  /\ poll.pc = "sleeping"
  /\ LET p2 == StepSleepDone(poll, late) IN
     /\ PreviewsAllow(p2.now)
     /\ poll' = p2
     /\ app' = [app EXCEPT !.label = <<"Actions running... (", p2.lastPing, "s)">>]
  /\ UNCHANGED <<run, risk, harness, preview>>

AppPollFetchSettles(latency, how, logSuffix) ==
  /\ app.pc = "polling"
  /\ poll.pc = "fetching"
  /\ LET p2 == StepFetchSettles(poll, latency, how) IN
     /\ PreviewsAllow(p2.now)
     /\ AfterPoll(p2, logSuffix)
  /\ UNCHANGED <<risk, harness, preview>>

AppPollJsonSettles(latency, parsed, data, logSuffix) ==
  /\ app.pc = "polling"
  /\ poll.pc = "parsing"
  /\ LET p2 == StepJsonSettles(poll, latency, parsed, data) IN
     /\ PreviewsAllow(p2.now)
     /\ AfterPoll(p2, logSuffix)
  /\ UNCHANGED <<risk, harness, preview>>

\* a timer of the i-th preview in flight fires: one stage of its orchestrator
\* and its callback; after the last stage the invocation ends
AppPreviewStep(i) ==
  /\ i \in DOMAIN preview
  /\ \E m2 \in MockSteps(preview[i].m) :
       LET call == LastCall(m2)
           l2   == CallbackLocal(preview[i].local, call[1], call[2])
           a2   == [CallbackApp(app, call[1], call[2], "preview")
                      EXCEPT !.previewCalls = @ + 1]
       IN
       IF m2.pc = "returned"
       THEN /\ app' = EndMock(a2, l2)
            /\ preview' = [j \in 1..(Len(preview) - 1) |->
                             IF j < i THEN preview[j] ELSE preview[j + 1]]
       ELSE /\ app' = a2
            /\ preview' = [preview EXCEPT ![i] = [m |-> m2, local |-> l2]]
  /\ UNCHANGED <<run, risk, poll, harness>>

NextApp ==
  \/ \E h \in HeadlineInputs, t \in TickerInputs, s \in SourceInputs,
        x \in LogSuffixes : RunPipeline(h, t, s, x)
  \/ AppMockStep
  \/ \E v \in TokenInputs : SaveGhToken(v)
  \/ ClearGhToken
  \/ \E x \in LogSuffixes : AppDispatchFetchThrows(x)
  \/ \E st \in Statuses, x \in LogSuffixes : AppDispatchResponds(st, x)
  \/ \E parsed \in BOOLEAN, data \in ErrorBodies, x \in LogSuffixes :
        AppDispatchErrorBody(parsed, data, x)
  \/ \E late \in AppLates : AppPollSleepDone(late)
  \/ \E latency \in AppLatencies, how \in {"ok", "not_ok", "throw"},
        x \in LogSuffixes : AppPollFetchSettles(latency, how, x)
  \/ \E latency \in AppLatencies, parsed \in BOOLEAN, data \in AppBodies,
        x \in LogSuffixes : AppPollJsonSettles(latency, parsed, data, x)
  \/ \E i \in 1..MaxRuns : AppPreviewStep(i)

SpecApp == InitApp /\ [][NextApp]_vars

\* ------------------------------------------------------------------------
\* Claims about the dashboard
\* ------------------------------------------------------------------------

\* C13: when dispatchPipeline fails in a remote-mode run, the run has sent
\* one dispatch request and no more, starts no poll loop and no preview,
\* and runs the mock orchestrator once, as a non-preview run; when the run
\* has finished it has finished like a mock run: the audit entries of the
\* mock result (4 or 5) are persisted, the run is counted in the stored
\* stats and the button is enabled again.
C13_DispatchFailureFallback ==
  app.dispatchFailed =>
    /\ app.mode = "remote"
    /\ app.dispatches = 1
    /\ app.polls = 0
    /\ app.previews = 0
    /\ app.mocks = 1
    /\ disp = Idle
    /\ poll = PollIdle
    /\ app.pc \in {"fallback", "ready"}
    /\ app.pc = "fallback" =>
         /\ run.pc \notin {"idle", "returned"}
         /\ ~app.local.preview
         /\ app.btnDisabled
         /\ app.auditCount = app.auditAtStart
    /\ app.pc = "ready" =>
         /\ run = RunIdle
         /\ ~app.btnDisabled
         /\ app.auditCount - app.auditAtStart \in {4, 5}
         /\ Len(app.auditLog) = app.auditCount
         /\ app.stats # Null
         /\ app.stats[1].runCount = app.runCount
         /\ app.stats[1].auditCount = app.auditCount

C13_Witness ==
  /\ app.pc = "ready"
  /\ app.dispatchFailed
  /\ app.mocks = 1
  /\ app.runCount = 1
  /\ app.auditCount = 5

\* C14: while the preview and the poll loop of a remote-mode run are both
\* in flight, a callback of the preview changes none of the counters
\* runCount, vetoCount, auditCount and nothing in the persisted store.
C14_PreviewIndependent ==
  [][(app.pc = "polling" /\ app'.pc = "polling"
        /\ app'.previewCalls # app.previewCalls) =>
       /\ app'.runCount = app.runCount
       /\ app'.vetoCount = app.vetoCount
       /\ app'.auditCount = app.auditCount
       /\ app'.stats = app.stats
       /\ app'.auditLog = app.auditLog]_vars

\* C18: a run takes the remote path (dispatch, then poll) exactly when the
\* credential slot is non-empty as the run starts, and the mock path
\* otherwise; so the next run after a non-blank save is remote, the next run
\* after a clear or after a blank save on an empty slot is mock; and
\* hasToken is true exactly when the slot holds a non-empty value.
C18_ModeFollowsToken ==
  /\ [](/\ hasToken(app) <=> (loadToken(app) # <<>>)
        /\ hasToken(app) <=> (app.token # Null /\ Len(app.token[1]) > 0))
  /\ [][(app.pc = "ready" /\ app'.pc # "ready") =>
          /\ (app'.mode = "remote") <=> hasToken(app)
          /\ (app'.mode = "mock") <=> ~hasToken(app)
          /\ (app'.mode = "remote") =>
               /\ app'.pc = "dispatching"
               /\ disp'.pc = "fetching"
               /\ run' = RunIdle
          /\ (app'.mode = "mock") =>
               /\ app'.pc = "mock"
               /\ disp' = Idle
               /\ run'.pc = "delay_researcher"
          /\ (app.lastTokenOp = "saved") => (app'.mode = "remote")
          /\ (app.lastTokenOp \in {"cleared", "blank_on_empty"}) =>
               (app'.mode = "mock")]_vars

C18_Witness ==
  /\ app.pc = "dispatching"
  /\ app.mode = "remote"
  /\ app.lastTokenOp = "saved"

\* C21: every completed run adds exactly one to runCount and at most one to
\* vetoCount, so, the counters starting from zero, vetoCount <= runCount
\* whenever no run (and no preview) is in flight.
C21_VetoesAtMostRuns ==
  (app.pc = "ready" /\ preview = <<>>) =>
     /\ app.runCount <= app.started
     /\ app.vetoCount <= app.runCount

\* the stages persistAuditEntries is to log for a result
LoggedAgents(vetoed) ==
  IF vetoed THEN <<"researcher", "signal_agent", "risk_manager", "supervisor">>
  ELSE AGENT_ORDER

\* C22: a run persists nothing until it finishes, and when it has finished
\* it has persisted the entries of exactly one Run Result: auditCount has
\* grown by 4 (researcher, signal_agent, risk_manager, supervisor) when that
\* result is vetoed and by 5 otherwise, in every mode and outcome; a
\* callback of a preview run persists nothing.
C22_AuditPerRun ==
  /\ [](app.pc # "ready" => app.auditCount = app.auditAtStart)
  /\ []((app.pc = "ready" /\ app.result # Null) =>
          LET logged == LoggedAgents(app.result[1].vetoed) IN
          /\ app.auditCount = app.auditAtStart + Len(logged)
          /\ Len(app.auditLog) = app.auditCount
          /\ \A i \in 1..Len(logged) :
               /\ app.auditLog[i].agent = logged[i]
               /\ app.auditLog[i].id = <<app.auditLog[1].id[1], i - 1>>)
  /\ [][(app'.previewCalls # app.previewCalls /\ app'.started = app.started) =>
          /\ app'.auditCount = app.auditCount
          /\ app'.auditLog = app.auditLog]_vars

C22_Witness ==
  /\ app.pc = "ready"
  /\ app.result = Some([by |-> "real", vetoed |-> TRUE])
  /\ app.previews = 1
  /\ app.previewCalls > 0
  /\ app.auditCount = 4

\* C23: once a remote-mode run has shown the real result, and until the next
\* run starts, every stage card shows what applyResultsToUI put there: no
\* callback of the preview writes a card after the real result was applied.
C23_CardsKeepRealResult ==
  (app.pc = "ready" /\ app.result # Null /\ app.result[1].by = "real") =>
     \A k \in DOMAIN app.cards : app.cards[k].by \in {"real", "none"}

\* C24: the run button is disabled from the start of a run and stays
\* disabled while any stage, dispatch or poll the run started is pending:
\* whenever the button is enabled, no orchestrator run (awaited or preview),
\* no dispatch and no poll loop is in flight.
C24_ButtonDisabledWhilePending ==
  /\ app.pc # "ready" => app.btnDisabled
  /\ ~app.btnDisabled =>
       /\ app.pc = "ready"
       /\ run = RunIdle
       /\ disp = Idle
       /\ poll = PollIdle
       /\ preview = <<>>

\* ------------------------------------------------------------------------
\* Specification of direct calls of runExecutionAgent, next to the runs of
\* the orchestrator
\*
\* direct = [pc, fn, the arguments, out]: pc is "call" before and "done"
\* after the call; sizes are in tenths of a percent.
\* ------------------------------------------------------------------------

\* largest size tried, tenths of a percent
MaxExecTenths == 60

ExecSignals ==
  { [size_pct |-> sz, entry_price |-> TICKER_PROFILES[NVDA].price] : sz \in 0..MaxExecTenths }

ExecRisks ==
  { [veto |-> v, adjusted_size_pct |-> a]
      : v \in BOOLEAN,
        a \in {Null} \cup { Some(x) : x \in 0..MaxExecTenths } }

InitExec ==
  /\ run = RunIdle
  /\ risk = RiskIdle
  /\ poll = PollIdle
  /\ sig = Idle
  /\ disp = Idle
  /\ audit = Idle
  /\ idx = Idle
  /\ prof = Idle
  /\ table = TICKER_PROFILES
  /\ AppIdle
  /\ direct \in { [pc |-> "call", fn |-> "runExecutionAgent",
                   signalPayload |-> sp, riskPayload |-> rp,
                   slippage |-> SlipBase, out |-> Null]
                  : sp \in ExecSignals, rp \in ExecRisks }

ExecCall ==
  /\ direct.pc = "call"
  /\ direct.fn = "runExecutionAgent"
  /\ direct' = [direct EXCEPT
                  !.pc = "done",
                  !.out = Some(runExecutionAgent(direct.signalPayload,
                                                 direct.riskPayload,
                                                 direct.slippage))]
  /\ UNCHANGED <<run, risk, poll, sig, disp, audit, idx, prof, table, appvars>>

NextExec ==
  \/ ExecCall
  \/ NextMock

SpecExec == (InitExec \/ InitMock) /\ [][NextExec]_vars

\* C25: runExecutionAgent returns exactly {status: REJECTED, reason} when,
\* and only when, the risk payload has veto = true; otherwise the status is
\* SIMULATED_FILL, the strategy is TWAP when the effective size (the adjusted
\* size, or the signal's size when that is null) is above 3 percent and
\* LIMIT otherwise, with duration 30 and 6 child orders.  In a run of the
\* orchestrator an execution_agent payload, when present, has status
\* SIMULATED_FILL.
C25_ExecutionPlan ==
  /\ (direct.pc = "done" /\ direct.fn = "runExecutionAgent") =>
       LET out    == direct.out[1]
           rp     == direct.riskPayload
           effect == IF rp.adjusted_size_pct = Null
                     THEN direct.signalPayload.size_pct
                     ELSE rp.adjusted_size_pct[1]
       IN
       /\ (out.status = "REJECTED") <=> rp.veto
       /\ rp.veto => DOMAIN out = {"status", "reason"}
       /\ ~rp.veto =>
            /\ out.status = "SIMULATED_FILL"
            /\ out.strategy = IF 10 * effect > 300 THEN "TWAP" ELSE "LIMIT"
            /\ out.duration_min = 30
            /\ out.child_orders = 6
  /\ run.pc # "idle" =>
       /\ "execution_agent" \in DOMAIN run.results =>
            run.results["execution_agent"].status = "SIMULATED_FILL"
       /\ "execution_agent" \in DOMAIN run.ret =>
            run.ret["execution_agent"].status = "SIMULATED_FILL"

C25_Witness ==
  /\ direct.pc = "done"
  /\ direct.fn = "runExecutionAgent"
  /\ ~direct.riskPayload.veto
  /\ direct.riskPayload.adjusted_size_pct = Null
  /\ direct.signalPayload.size_pct = 31
  /\ direct.out[1].strategy = "TWAP"

\* ------------------------------------------------------------------------
\* Specification of direct calls of runSupervisor, next to the runs of the
\* orchestrator
\* ------------------------------------------------------------------------

StageKeys ==
  {"researcher", "signal_agent", "risk_manager", "execution_agent"}

\* a payload for each stage; the risk payload with either verdict
StagePayload(k, veto) ==
  CASE k = "researcher"      -> [signal |-> "BULLISH"]
    [] k = "signal_agent"    -> [action |-> "LONG"]
    [] k = "risk_manager"    -> [veto |-> veto]
    [] k = "execution_agent" -> [status |-> "SIMULATED_FILL"]

\* every set of stage payloads
PayloadSets ==
  { [k \in present |-> StagePayload(k, veto)]
      : present \in SUBSET StageKeys, veto \in BOOLEAN }

InitSupervisor ==
  /\ run = RunIdle
  /\ risk = RiskIdle
  /\ poll = PollIdle
  /\ sig = Idle
  /\ disp = Idle
  /\ audit = Idle
  /\ idx = Idle
  /\ prof = Idle
  /\ table = TICKER_PROFILES
  /\ AppIdle
  /\ direct \in { [pc |-> "call", fn |-> "runSupervisor", all |-> a, out |-> Null]
                  : a \in PayloadSets }

SupervisorCall ==
  /\ direct.pc = "call"
  /\ direct.fn = "runSupervisor"
  /\ direct' = [direct EXCEPT !.pc = "done",
                              !.out = Some(runSupervisor(direct.all))]
  /\ UNCHANGED <<run, risk, poll, sig, disp, audit, idx, prof, table, appvars>>

NextSupervisor ==
  \/ SupervisorCall
  \/ NextMock

SpecSupervisor == (InitSupervisor \/ InitMock) /\ [][NextSupervisor]_vars

RECURSIVE CountPresent(_, _)
CountPresent(keys, all) ==
  IF keys = {} THEN 0
  ELSE LET k == CHOOSE x \in keys : TRUE IN
       (IF k \in DOMAIN all THEN 1 ELSE 0) + CountPresent(keys \ {k}, all)

\* C26: for every set of payloads, audit_status is COMPLIANT exactly when a
\* researcher and a risk_manager payload are both present and NON_COMPLIANT
\* otherwise, human_review_required is the risk payload's veto (false
\* without a risk payload), and total_messages_audited is the number of
\* stage payloads present.  In a run of the orchestrator
\* total_messages_audited is 3 when Risk vetoed and 4 otherwise, and
\* audit_status is COMPLIANT.
C26_SupervisorAudit ==
  /\ (direct.pc = "done" /\ direct.fn = "runSupervisor") =>
       LET all     == direct.all
           out     == direct.out[1]
           chained == {"researcher", "risk_manager"} \subseteq DOMAIN all
       IN
       /\ out.audit_status = IF chained THEN "COMPLIANT" ELSE "NON_COMPLIANT"
       /\ out.human_review_required =
            ("risk_manager" \in DOMAIN all /\ all["risk_manager"].veto)
       /\ out.total_messages_audited = CountPresent(StageKeys, all)
  /\ (run.pc # "idle" /\ "supervisor" \in DOMAIN run.results) =>
       /\ run.results["supervisor"].total_messages_audited
            = IF run.results["risk_manager"].veto THEN 3 ELSE 4
       /\ run.results["supervisor"].audit_status = "COMPLIANT"

C26_Witness ==
  /\ direct.pc = "done"
  /\ direct.fn = "runSupervisor"
  /\ DOMAIN direct.all = {"signal_agent", "risk_manager"}
  /\ direct.all["risk_manager"].veto
  /\ direct.out[1].audit_status = "NON_COMPLIANT"
  /\ direct.out[1].human_review_required
  /\ direct.out[1].total_messages_audited = 2

\* C27: in every call of pollForResult the progress callback has been
\* invoked once per fetch attempt, after the iteration's wait and before its
\* fetch, with the seconds remaining until the deadline at that moment,
\* which is never negative.
C27_PingPerIteration ==
  poll.pc # "idle" =>
    /\ poll.pings = poll.attempts
    /\ poll.pings > 0 =>
         /\ poll.lastPing = MathRound(poll.deadline - poll.fetchAt, TicksPerSec)
         /\ poll.lastPing >= 0

====
